---- MODULE Spec2Model ----
(***************************************************************************)
(* A model of dependencies.py: the leaves report and the two DOT graphs    *)
(* (closure from seeds, one-hop around an interest set) computed from the  *)
(* provides/requires metadata of the installed packages.                   *)
(*                                                                         *)
(* Strings that the program escapes (package names, entities) are          *)
(* sequences of one-character strings, so that escape_DOT_string can be    *)
(* computed the way str.replace computes it.  A Python set is a set; a     *)
(* Python list is a sequence; a list that is only ever filled while        *)
(* iterating a set (arbitrary order) is a bag.                             *)
(***************************************************************************)
EXTENDS Integers, Sequences, FiniteSets, Bags, TLC

\* ------------------------------------------------------------------ bounds

\* The most 'provides:', 'requires:' and 'supplements:' entities that the
\* metadata of all the package files found declare together.
MaxEntities == 4

\* The package files the two package directories may hold, in glob order:
\* any number of them, from none to all three, is found.
PackageFiles == << "p1.hpkg", "p2.hpkg", "p3.hpkg" >>

\* The names a package file may report.  Names are only compared and
\* escaped, so the k-th file found reports one of the first k names.
\* The third name holds the two characters \" that escape_DOT_string rewrites.
NameOrder == << <<"a">>, <<"b">>, <<"\\", "\"">> >>

Names == { NameOrder[i] : i \in 1..Len(NameOrder) }

\* The entities a package may provide or require.
Caps == { <<"x">>, <<"y">> }

\* ------------------------------------------------------------------ state

VARIABLES
    args,             \* the parsed command line (argparse namespace)
    pc,               \* where the invocation is
    packages,         \* get_packages(): the list of package_info read so far
    package_map,      \* name -> package (with its DOT_id)
    providers,        \* entity -> list of names of the packages providing it
    requirers,        \* entity -> list of names of the packages requiring it
    graph_packages,   \* closure: the work-set; level 1: the interest set
    visited,          \* closure: the names already handled
    outside_nodes,    \* level 1: packages met outside the interest set
    error_nodes,      \* level 1: requested names that are no package
    edges,            \* level 1: name -> bag of the names it depends on
    stdout,           \* what has been printed, in order
    expansions        \* history: how often the closure loop expanded each name

vars == << args, pc, packages, package_map, providers, requirers,
           graph_packages, visited, outside_nodes, error_nodes, edges,
           stdout, expansions >>

\* ---------------------------------------------------------------- helpers

Min(a, b) == IF a < b THEN a ELSE b

Range(s) == { s[i] : i \in 1..Len(s) }

\* The orders in which a Python set may be iterated.
Orders(S) == { s \in [1..Cardinality(S) -> S] : Range(s) = S }

\* Lines printed while iterating a set come out in an order the language does
\* not fix: they are recorded as one block holding the bag of the lines.
Unordered(lines) ==
    IF lines = EmptyBag THEN <<>> ELSE << [kind |-> "unordered", lines |-> lines] >>

Text(s) == [kind |-> "text", text |-> s]

\* print(WARNING)
WarningText == Text("WARNING")

\* ------------------------------------------------------------- escaping

RECURSIVE escape_DOT_string(_)
escape_DOT_string(string) ==
    IF Len(string) = 0 THEN <<>>
    ELSE IF Len(string) >= 2 /\ string[1] = "\\" /\ string[2] = "\""
         THEN <<"\\", "\\", "\"">> \o escape_DOT_string(SubSeq(string, 3, Len(string)))
         ELSE <<string[1]>> \o escape_DOT_string(Tail(string))

\* justify = 'center': the result of the second replace is dropped, and the
\* string is returned as escape_DOT_string left it.
escape_DOT_label(string) == escape_DOT_string(string)

DOT_id(name) == <<"\"">> \o escape_DOT_string(name) \o <<"\"">>

\* ------------------------------------------------------------- the input

\* The command lines: leaves; graph --all-requirements [package ...];
\* graph [--all-edges] [package ...], each with or without
\* --i-know-what-im-doing.  args.package is only ever tested for emptiness
\* and turned into a set.  --all-edges, which do_requirements_graph never
\* reads, is left off with --all-requirements.
ArgSets ==
    { [command |-> "leaves", i_know_what_im_doing |-> k, all_edges |-> FALSE,
       all_requirements |-> FALSE, package |-> {}] : k \in BOOLEAN }
    \cup
    { [command |-> "graph", i_know_what_im_doing |-> k, all_edges |-> FALSE,
       all_requirements |-> TRUE, package |-> P] : k \in BOOLEAN, P \in SUBSET Names }
    \cup
    { [command |-> "graph", i_know_what_im_doing |-> k, all_edges |-> e,
       all_requirements |-> FALSE, package |-> P] :
         k \in BOOLEAN, e \in BOOLEAN, P \in SUBSET Names }

RECURSIVE EntitiesDeclared(_)
EntitiesDeclared(pkgs) ==
    IF pkgs = <<>> THEN 0
    ELSE Cardinality(Head(pkgs).provides) + Cardinality(Head(pkgs).requires)
         + EntitiesDeclared(Tail(pkgs))

\* What read_package may return for the k-th file, given the entities the
\* files before it declared.
PackageInfos(k, used) ==
    { [name |-> NameOrder[i], path |-> PackageFiles[k],
       requires |-> d[1], provides |-> d[2]] :
        i \in 1..Min(k, Len(NameOrder)),
        d \in { e \in (SUBSET Caps) \X (SUBSET Caps) :
                   used + Cardinality(e[1]) + Cardinality(e[2]) <= MaxEntities } }

\* -------------------------------------------------------------- the start

Init ==
    /\ args \in ArgSets
    /\ pc = "main"
    /\ packages = <<>>
    /\ package_map = <<>>
    /\ providers = [c \in Caps |-> <<>>]
    /\ requirers = [c \in Caps |-> <<>>]
    /\ graph_packages = {}
    /\ visited = {}
    /\ outside_nodes = {}
    /\ error_nodes = {}
    /\ edges = <<>>
    /\ stdout = <<>>
    /\ expansions = EmptyBag

\* ------------------------------------------------ main, do_graph, do_leaves

\* A warning printed whatever the flag.
always_warn(i_know_what_im_doing) == <<WarningText>>

\* if not args.i_know_what_im_doing: print(WARNING)
leaves_preamble(i_know_what_im_doing) ==
    IF ~i_know_what_im_doing THEN <<WarningText>> ELSE <<>>

\* main -> do_leaves: the warning is printed before the packages are read.
do_leaves_begin ==
    /\ pc = "main"
    /\ args.command = "leaves"
    /\ stdout' = leaves_preamble(args.i_know_what_im_doing)
    /\ pc' = "get_packages"
    /\ UNCHANGED << args, packages, package_map, providers, requirers,
                    graph_packages, visited, outside_nodes, error_nodes, edges,
                    expansions >>

\* main -> do_graph -> do_requirements_graph: graph_parser.error() writes the
\* usage to stderr and exits; otherwise the packages are read.
do_requirements_graph_begin ==
    /\ pc = "main"
    /\ args.command = "graph"
    /\ args.all_requirements
    /\ pc' = IF args.package = {} THEN "usage_error" ELSE "get_packages"
    /\ UNCHANGED << args, packages, package_map, providers, requirers,
                    graph_packages, visited, outside_nodes, error_nodes, edges,
                    stdout, expansions >>

\* main -> do_graph -> do_level1_graph
do_level1_graph_begin ==
    /\ pc = "main"
    /\ args.command = "graph"
    /\ ~args.all_requirements
    /\ pc' = "get_packages"
    /\ UNCHANGED << args, packages, package_map, providers, requirers,
                    graph_packages, visited, outside_nodes, error_nodes, edges,
                    stdout, expansions >>

\* ----------------------------------------------------------- get_packages

\* One more file is found, and '/bin/package list -i' succeeds on it.
read_package ==
    /\ pc = "get_packages"
    /\ Len(packages) < Len(PackageFiles)
    /\ \E package_info \in PackageInfos(Len(packages) + 1, EntitiesDeclared(packages)) :
           packages' = Append(packages, package_info)
    /\ UNCHANGED << args, pc, package_map, providers, requirers,
                    graph_packages, visited, outside_nodes, error_nodes, edges,
                    stdout, expansions >>

\* One more file is found, and '/bin/package list -i' fails on it:
\* subprocess.run(check=True) raises CalledProcessError, which nothing catches.
read_package_fails ==
    /\ pc = "get_packages"
    /\ Len(packages) < Len(PackageFiles)
    /\ pc' = "aborted"
    /\ UNCHANGED << args, packages, package_map, providers, requirers,
                    graph_packages, visited, outside_nodes, error_nodes, edges,
                    stdout, expansions >>

\* No file is left: get_packages returns to the command that called it.
get_packages_return ==
    /\ pc = "get_packages"
    /\ pc' = IF args.command = "leaves" THEN "leaves_report"
             ELSE IF args.all_requirements THEN "closure_index"
             ELSE "level1_index"
    /\ UNCHANGED << args, packages, package_map, providers, requirers,
                    graph_packages, visited, outside_nodes, error_nodes, edges,
                    stdout, expansions >>

\* ---------------------------------------------------------------- leaves

\* requirements.update(*(package['requires'] for package in packages))
requirements(pkgs) == UNION { pkgs[i].requires : i \in 1..Len(pkgs) }

\* A leaf test that leaves the package's own requirements out.
is_leaf_among_others(package, pkgs) ==
    package.provides \cap
        UNION { pkgs[i].requires : i \in { j \in 1..Len(pkgs) : pkgs[j] # package } } = {}

\* The for/else of do_leaves: no provided entity is in requirements.
is_leaf(package, pkgs) == package.provides \cap requirements(pkgs) = {}

LeafLine(package) == [kind |-> "leaf", name |-> package.name, path |-> package.path]

leaf_lines(pkgs) ==
    LET leaves == SelectSeq(pkgs, LAMBDA package : is_leaf(package, pkgs))
    IN  [i \in 1..Len(leaves) |-> LeafLine(leaves[i])]

do_leaves_report ==
    /\ pc = "leaves_report"
    /\ stdout' = stdout \o leaf_lines(packages)
    /\ pc' = "done"
    /\ UNCHANGED << args, packages, package_map, providers, requirers,
                    graph_packages, visited, outside_nodes, error_nodes, edges,
                    expansions >>

\* ------------------------------------------------------------ the indices

\* package_map[name] = package, with package['DOT_id'] set: a later package
\* of the same name replaces the earlier one.
build_package_map(pkgs) ==
    LET names == { pkgs[i].name : i \in 1..Len(pkgs) }
        last(n) == CHOOSE i \in 1..Len(pkgs) :
                      /\ pkgs[i].name = n
                      /\ \A j \in (i+1)..Len(pkgs) : pkgs[j].name # n
    IN  [n \in names |->
            [name |-> n, path |-> pkgs[last(n)].path,
             requires |-> pkgs[last(n)].requires,
             provides |-> pkgs[last(n)].provides,
             DOT_id |-> DOT_id(n)]]

\* An index built from 'provides' whatever the field asked for.
indexed_provides(package, entity, field) == entity \in package.provides

\* Whether package declares entity in the field the index is built from.
indexed(package, entity, field) ==
    IF field = "provides" THEN entity \in package.provides
    ELSE entity \in package.requires

\* for package in packages: for entity in package[field]:
\*     index[entity].append(package['name'])
RECURSIVE build_index(_, _)
build_index(pkgs, field) ==
    IF pkgs = <<>> THEN [c \in Caps |-> <<>>]
    ELSE LET front == build_index(SubSeq(pkgs, 1, Len(pkgs) - 1), field)
             package == pkgs[Len(pkgs)]
         IN  [c \in Caps |->
                 IF indexed(package, c, field)
                 THEN Append(front[c], package.name) ELSE front[c]]

do_requirements_graph_index ==
    /\ pc = "closure_index"
    /\ package_map' = build_package_map(packages)
    /\ providers' = build_index(packages, "provides")
    /\ pc' = "closure_header"
    /\ UNCHANGED << args, packages, requirers,
                    graph_packages, visited, outside_nodes, error_nodes, edges,
                    stdout, expansions >>

do_level1_graph_index ==
    /\ pc = "level1_index"
    /\ package_map' = build_package_map(packages)
    /\ providers' = build_index(packages, "provides")
    /\ requirers' = build_index(packages, "requires")
    /\ pc' = "level1_resolve"
    /\ UNCHANGED << args, packages,
                    graph_packages, visited, outside_nodes, error_nodes, edges,
                    stdout, expansions >>

\* ---------------------------------------------- do_requirements_graph

\* The bag of f(x) for x in S: what a loop over S yields, whatever its order.
BagOfImage(S, f(_)) ==
    LET image == { f(x) : x \in S }
    IN  [ y \in image |-> Cardinality({ x \in S : f(x) = y }) ]

\* print(package_map[package_name]['DOT_id'])
NodeLine(id) == [kind |-> "node", id |-> id, attr |-> ""]

\* print('"', escape_DOT_string(package_name), '" [fillcolor=red]', sep='')
RedNodeLine(package_name) ==
    [kind |-> "node", id |-> DOT_id(package_name), attr |-> "fillcolor=red"]

\* print('label="', escape_DOT_label(WARNING, 'left'), '"', sep='')
LabelLine == [kind |-> "label", text |-> "WARNING"]

WarningLabel == IF ~args.i_know_what_im_doing THEN <<LabelLine>> ELSE <<>>

\* A seed loop that marks nothing visited.
no_unresolved_seeds(seeds, map) == {}

\* The seeds that the seed loop puts in visited: those that are no package.
unresolved_seeds(seeds, map) == { n \in seeds : n \notin DOMAIN map }

seed_line(package_name, map) ==
    IF package_name \in DOMAIN map THEN NodeLine(map[package_name].DOT_id)
    ELSE RedNodeLine(package_name)

\* graph_packages = set(args.package), the opening lines, and the seed loop.
do_requirements_graph_header ==
    /\ pc = "closure_header"
    /\ graph_packages' = args.package
    /\ visited' = unresolved_seeds(args.package, package_map)
    /\ stdout' = stdout \o << Text("digraph {") >> \o WarningLabel
                   \o << Text("node [style=filled fillcolor=aliceblue]"),
                         Text("{ node [fillcolor=lightgrey]") >>
                   \o Unordered(BagOfImage(args.package,
                                           LAMBDA n : seed_line(n, package_map)))
                   \o << Text("}") >>
    /\ pc' = "closure_loop"
    /\ UNCHANGED << args, packages, package_map, providers, requirers,
                    outside_nodes, error_nodes, edges, expansions >>

\* Only the first name of each index[entity].
entity_pairs_first(entities, index) ==
    { <<entity, 1>> : entity \in { e \in entities : Len(index[e]) >= 1 } }

\* The (entity, position in index[entity]) pairs that
\*     for entity in entities: for name in index[entity]:
\* goes through.
entity_pairs(entities, index) ==
    UNION { { <<entity, i>> : i \in 1..Len(index[entity]) } : entity \in entities }

\* print(node, ' -> ', package_map[dependency_name]['DOT_id'],
\*       ' [label="', edge, '"]', sep='')
LabelledEdgeLine(node, id, edge) ==
    [kind |-> "edge", src |-> node, dst |-> id, label |-> edge]

\* A loop that never takes a popped name for visited.
never_visited(package_name, seen) == FALSE

\* Whether the while loop skips a name it popped.
already_visited(package_name, seen) == package_name \in seen

\* One turn of the while loop: pop any name; skip it if visited; else print
\* an edge to every provider of every requirement, add the providers to the
\* work-set, and mark the name visited.  A name that is no key of package_map
\* raises KeyError.
do_requirements_graph_step ==
    /\ pc = "closure_loop"
    /\ graph_packages # {}
    /\ \E package_name \in graph_packages :
        LET rest == graph_packages \ {package_name} IN
        IF already_visited(package_name, visited)
        THEN /\ graph_packages' = rest
             /\ UNCHANGED << pc, visited, stdout, expansions >>
        ELSE IF package_name \notin DOMAIN package_map
        THEN /\ pc' = "KeyError"
             /\ graph_packages' = rest
             /\ UNCHANGED << visited, stdout, expansions >>
        ELSE LET package == package_map[package_name]
                 pairs == entity_pairs(package.requires, providers)
                 dependency_name(pair) == providers[pair[1]][pair[2]]
                 dependencies == { dependency_name(pair) : pair \in pairs }
             IN  IF \E d \in dependencies : d \notin DOMAIN package_map
                 THEN /\ pc' = "KeyError"
                      /\ graph_packages' = rest
                      /\ UNCHANGED << visited, stdout, expansions >>
                 ELSE /\ stdout' = stdout \o Unordered(BagOfImage(pairs,
                            LAMBDA pair : LabelledEdgeLine(package.DOT_id,
                                            package_map[dependency_name(pair)].DOT_id,
                                            escape_DOT_label(pair[1]))))
                      /\ graph_packages' = rest \cup dependencies
                      /\ visited' = visited \cup {package_name}
                      /\ expansions' = expansions (+) SetToBag({package_name})
                      /\ pc' = pc
    /\ UNCHANGED << args, packages, package_map, providers, requirers,
                    outside_nodes, error_nodes, edges >>

\* The work-set is empty: print('}')
do_requirements_graph_footer ==
    /\ pc = "closure_loop"
    /\ graph_packages = {}
    /\ stdout' = Append(stdout, Text("}"))
    /\ pc' = "done"
    /\ UNCHANGED << args, packages, package_map, providers, requirers,
                    graph_packages, visited, outside_nodes, error_nodes, edges,
                    expansions >>

\* ------------------------------------------------------ do_level1_graph

\* An interest set that is never defaulted to all the packages.
interest_as_given(package, map) == package

\* if args.package: set(args.package) else: set(package_map)
interest_set(package, map) == IF package # {} THEN package ELSE DOMAIN map

\* A container that appends whatever the flag.
container_append(all_edges, container, items) == container (+) items

\* edges[name] is a set, or with --all-edges a list_with_alias, whose add and
\* update append.  Both are bags here; a set holds one copy of each member.
container_update(all_edges, container, items) ==
    IF all_edges THEN container (+) items
    ELSE SetToBag(BagToSet(container) \cup BagToSet(items))

\* edges[name], a defaultdict: a missing key reads as the empty container.
edges_at(e, name) == IF name \in DOMAIN e THEN e[name] ELSE EmptyBag

\* A dependent branch that records every requirer.
dependent_always(dependency, interest) == TRUE

\* Whether the dependent branch records the edge from a requirer of the
\* package being processed.
dependent_recorded(dependency, interest) == dependency \notin interest

\* The body of 'for package_name in graph_packages', on the three
\* collections it fills.
level1_step(st, package_name, interest, all_edges, map, prov, reqr) ==
    IF package_name \notin DOMAIN map
    THEN [st EXCEPT !.error_nodes = @ \cup {package_name}]
    ELSE
    LET package == map[package_name]
        dep_pairs == entity_pairs(package.requires, prov)
        dependencies ==
            container_update(all_edges, edges_at(st.edges, package_name),
                BagOfImage(dep_pairs, LAMBDA pair : prov[pair[1]][pair[2]]))
        edges1 == [ n \in DOMAIN st.edges \cup {package_name} |->
                      IF n = package_name THEN dependencies ELSE st.edges[n] ]
        outside1 == { d \in BagToSet(dependencies) : d \notin interest }
        out_pairs == { pair \in entity_pairs(package.provides, reqr) :
                         dependent_recorded(reqr[pair[1]][pair[2]], interest) }
        dependents == { reqr[pair[1]][pair[2]] : pair \in out_pairs }
        added(n) == [ m \in {package_name} |->
                        Cardinality({ pair \in out_pairs :
                                        reqr[pair[1]][pair[2]] = n }) ]
        edges2 == [ n \in DOMAIN edges1 \cup dependents |->
                      IF n \in dependents
                      THEN container_update(all_edges, edges_at(edges1, n), added(n))
                      ELSE edges1[n] ]
    IN  [ outside_nodes |-> st.outside_nodes \cup outside1 \cup dependents,
          error_nodes |-> st.error_nodes,
          edges |-> edges2 ]

RECURSIVE level1_loop(_, _, _, _, _, _, _)
level1_loop(st, order, interest, all_edges, map, prov, reqr) ==
    IF order = <<>> THEN st
    ELSE level1_loop(level1_step(st, Head(order), interest, all_edges, map, prov, reqr),
                     Tail(order), interest, all_edges, map, prov, reqr)

\* The interest set and the loop over it, in any order of iteration.
do_level1_graph_resolve ==
    /\ pc = "level1_resolve"
    /\ LET interest == interest_set(args.package, package_map) IN
       \E order \in Orders(interest) :
         LET st == level1_loop([outside_nodes |-> {}, error_nodes |-> {}, edges |-> <<>>],
                               order, interest, args.all_edges,
                               package_map, providers, requirers)
         IN  /\ graph_packages' = interest
             /\ outside_nodes' = st.outside_nodes
             /\ error_nodes' = st.error_nodes
             /\ edges' = st.edges
    /\ pc' = "level1_render"
    /\ UNCHANGED << args, packages, package_map, providers, requirers,
                    visited, stdout, expansions >>

\* print(package['DOT_id'], '->', package_map[required_package]['DOT_id'])
EdgeLine(src, dst) == [kind |-> "edge", src |-> src, dst |-> dst]

\* One (source, destination, copy) triple per edge statement to print.
edge_statements(e) ==
    UNION { UNION { { <<s, d, k>> : k \in 1..CopiesIn(d, e[s]) } : d \in BagToSet(e[s]) } :
            s \in DOMAIN e }

Group(open, lines) ==
    IF lines = EmptyBag THEN <<>>
    ELSE << Text(open) >> \o Unordered(lines) \o << Text("}") >>

\* The printing of do_level1_graph.  A name that is no key of package_map
\* raises KeyError where it is looked up.
do_level1_graph_render ==
    /\ pc = "level1_render"
    /\ LET head == << Text("digraph {"), Text("node [style=filled]") >> \o WarningLabel
                     \o Group("{ node [fillcolor=red]",
                              BagOfImage(error_nodes, LAMBDA n : NodeLine(DOT_id(n))))
           statements == edge_statements(edges)
       IN  IF \E n \in outside_nodes : n \notin DOMAIN package_map
           THEN /\ pc' = "KeyError"
                /\ stdout' = stdout \o head
           ELSE LET outside == Group("{ node [fillcolor=aliceblue]",
                                  BagOfImage(outside_nodes,
                                             LAMBDA n : NodeLine(package_map[n].DOT_id)))
                IN  IF \E t \in statements :
                          t[1] \notin DOMAIN package_map \/ t[2] \notin DOMAIN package_map
                    THEN /\ pc' = "KeyError"
                         /\ stdout' = stdout \o head \o outside
                    ELSE /\ pc' = "done"
                         /\ stdout' = stdout \o head \o outside
                              \o Unordered(BagOfImage(statements,
                                   LAMBDA t : EdgeLine(package_map[t[1]].DOT_id,
                                                       package_map[t[2]].DOT_id)))
                              \o << Text("}") >>
    /\ UNCHANGED << args, packages, package_map, providers, requirers,
                    graph_packages, visited, outside_nodes, error_nodes, edges,
                    expansions >>

Next ==
    \/ do_leaves_begin
    \/ do_requirements_graph_begin
    \/ do_level1_graph_begin
    \/ read_package
    \/ read_package_fails
    \/ get_packages_return
    \/ do_leaves_report
    \/ do_requirements_graph_index
    \/ do_level1_graph_index
    \/ do_requirements_graph_header
    \/ do_requirements_graph_step
    \/ do_requirements_graph_footer
    \/ do_level1_graph_resolve
    \/ do_level1_graph_render

Spec == Init /\ [][Next]_vars

\* The runs of 'graph --all-requirements' alone.  The program is one thread
\* that does not stop while a step is left to take.
ClosureInit == Init /\ args.command = "graph" /\ args.all_requirements

ClosureNext ==
    \/ do_requirements_graph_begin
    \/ read_package
    \/ read_package_fails
    \/ get_packages_return
    \/ do_requirements_graph_index
    \/ do_requirements_graph_header
    \/ do_requirements_graph_step
    \/ do_requirements_graph_footer

ClosureSpec == ClosureInit /\ [][ClosureNext]_vars /\ WF_vars(ClosureNext)

\* ------------------------------------------------- what the claims speak of

\* Every line printed so far, whatever its place.
RECURSIVE Printed(_)
Printed(out) ==
    IF out = <<>> THEN EmptyBag
    ELSE (IF Head(out).kind = "unordered" THEN Head(out).lines
          ELSE SetToBag({Head(out)})) (+) Printed(Tail(out))

PrintedEdges ==
    LET all == Printed(stdout)
    IN  [ l \in { m \in DOMAIN all : m.kind = "edge" } |-> all[l] ]

\* The discovered packages, as read.
Indices == 1..Len(packages)
KnownNames == { packages[i].name : i \in Indices }
DistinctNames == \A i, j \in Indices : packages[i].name = packages[j].name => i = j
RecordOf(n) == packages[CHOOSE i \in Indices : packages[i].name = n]

\* The entities through which s depends on d (names pairwise distinct).
Links(s, d) == RecordOf(s).requires \cap RecordOf(d).provides

LeavesDone == pc = "done" /\ args.command = "leaves"
ClosureRun == args.command = "graph" /\ args.all_requirements
Level1Run  == args.command = "graph" /\ ~args.all_requirements
ClosureDone == pc = "done" /\ ClosureRun
Level1Done  == pc = "done" /\ Level1Run

\* The packages of interest of a level-1 run: those named on the command
\* line, or every discovered package when none is named.
Interest == IF args.package = {} THEN KnownNames ELSE args.package

\* The names given on the command line that are no discovered package.
Unresolved == args.package \ KnownNames

\* ------------------------------------------------------------------- C1

LeafReported(i) == \E k \in 1..Len(stdout) : stdout[k] = LeafLine(packages[i])

\* No provided entity of package i is required by any package, i included.
ProvidesNothingRequired(i) ==
    \A c \in packages[i].provides : \A j \in Indices : c \notin packages[j].requires

\* C1: when the leaves command has finished, the leaf lines are exactly the
\* packages none of whose provided entities is in the union of all requires
\* sets (their own included), in the order of the package list; a package
\* that provides nothing is among them.
C1_LeavesExact ==
    LeavesDone =>
        LET out == SelectSeq(stdout, LAMBDA l : l.kind = "leaf")
            idx == { i \in Indices : ProvidesNothingRequired(i) }
            kth(k) == CHOOSE i \in idx : Cardinality({ j \in idx : j < i }) = k - 1
        IN  /\ Len(out) = Cardinality(idx)
            /\ \A k \in 1..Len(out) : out[k] = LeafLine(packages[kth(k)])
            /\ \A i \in Indices : packages[i].provides = {} => LeafReported(i)

\* Three packages, of which the leaves command reported some and not others.
C1_Witness ==
    /\ LeavesDone
    /\ Len(packages) = 3
    /\ \E i, j, k \in Indices :
          /\ i < j
          /\ LeafReported(i) /\ LeafReported(j) /\ ~LeafReported(k)
          /\ packages[i].provides # {}

\* ------------------------------------------------------------------- C9

RequiredByAnother(i) ==
    \E j \in Indices \ {i} : packages[i].provides \cap packages[j].requires # {}

RequiredByItself(i) == packages[i].provides \cap packages[i].requires # {}

\* C9 as stated: a package is reported exactly when no other package requires
\* an entity it provides, so one required only by itself is reported.
C9_AsStated ==
    LeavesDone => \A i \in Indices : LeafReported(i) <=> ~RequiredByAnother(i)

\* C9 amended: a package is reported exactly when no package, itself
\* included, requires an entity it provides; a package that requires an
\* entity it provides is not reported, even when no other package requires
\* anything it provides.
C9_SelfRequirementCounts ==
    LeavesDone =>
        \A i \in Indices :
            /\ LeafReported(i) <=> (~RequiredByAnother(i) /\ ~RequiredByItself(i))
            /\ RequiredByItself(i) => ~LeafReported(i)

\* A package required only by itself, which the leaves command left out.
C9_Witness ==
    /\ LeavesDone
    /\ \E i \in Indices :
          RequiredByItself(i) /\ ~RequiredByAnother(i) /\ ~LeafReported(i)

\* ------------------------------------------------------------------- C2

\* C2: no name is expanded twice by the closure loop, and the loop, once
\* entered, ends with the work-set empty, whatever name each turn pops.
C2_TerminatesExpandingOnce ==
    /\ [](\A n \in DOMAIN expansions : expansions[n] <= 1)
    /\ (pc = "closure_loop") ~> (pc = "done" /\ graph_packages = {})

\* The loop has ended over two packages that depend on each other, one of
\* which also depends on itself, each expanded once.
C2_Witness ==
    /\ ClosureDone
    /\ DistinctNames
    /\ \E p, q \in KnownNames :
          /\ p # q
          /\ Links(p, q) # {} /\ Links(q, p) # {} /\ Links(p, p) # {}
          /\ CopiesIn(p, expansions) = 1 /\ CopiesIn(q, expansions) = 1

\* ------------------------------------------------------------------- C3

\* The names reached from S through requires -> providers links.
RECURSIVE Reached(_)
Reached(S) ==
    LET more == S \cup { d \in KnownNames :
                           \E p \in S \cap KnownNames : Links(p, d) # {} }
    IN  IF more = S THEN S ELSE Reached(more)

\* The (package, provider, entity) triples of the packages in V.
Triples(V) ==
    { t \in (V \cap KnownNames) \X KnownNames \X Caps : t[3] \in Links(t[1], t[2]) }

TripleLine(t) == LabelledEdgeLine(DOT_id(t[1]), DOT_id(t[2]), escape_DOT_label(t[3]))

\* C3: with pairwise distinct names, however the loop picked its names, the
\* visited set is the seeds and all that is reached from them, and the edge
\* lines are one line for each triple (p, d, c) with p visited and known, c
\* required by p and provided by d.
C3_ClosureIsOrderFree ==
    (ClosureDone /\ DistinctNames) =>
        LET triples == Triples(visited)
            lines == { TripleLine(t) : t \in triples }
        IN  /\ visited = Reached(args.package)
            /\ PrintedEdges = SetToBag(lines)
            /\ Cardinality(lines) = Cardinality(triples)

\* The scenario of the specification: C requires what B provides, B what A
\* provides; seeded with C alone, all three are visited and two edges printed.
C3_Witness ==
    /\ ClosureDone
    /\ DistinctNames
    /\ Cardinality(args.package) = 1
    /\ Cardinality(visited) = 3
    /\ BagCardinality(PrintedEdges) = 2
    /\ \E a, b, c \in KnownNames :
          /\ args.package = {c}
          /\ Links(c, b) # {} /\ Links(b, a) # {} /\ Links(c, a) = {}

\* ------------------------------------------------------------------- C4

\* C4: without --all-edges, no edge statement is printed twice and no
\* destination is recorded twice for a source.
C4_NoParallelEdges ==
    (Level1Run /\ ~args.all_edges) =>
        /\ \A l \in DOMAIN PrintedEdges : PrintedEdges[l] = 1
        /\ \A n \in DOMAIN edges : \A d \in DOMAIN edges[n] : edges[n][d] = 1

\* Two entities link a package to another one, which is in the interest
\* set; the run has ended and the edge is printed.
C4_Witness ==
    /\ Level1Done /\ ~args.all_edges /\ DistinctNames
    /\ \E s, d \in KnownNames :
          /\ s # d
          /\ Cardinality(Links(s, d)) = 2
          /\ d \in Interest
          /\ BagIn(EdgeLine(DOT_id(s), DOT_id(d)), PrintedEdges)

\* ------------------------------------------------------------------- C5

\* C5: with --all-edges and pairwise distinct names, for every two packages
\* of which one at least is in the interest set, as many edge statements are
\* printed from the one to the other as there are entities the one requires
\* and the other provides.
C5_OneEdgePerEntity ==
    (Level1Done /\ args.all_edges /\ DistinctNames) =>
        \A s, d \in KnownNames :
            (s \in Interest \/ d \in Interest) =>
                CopiesIn(EdgeLine(DOT_id(s), DOT_id(d)), PrintedEdges)
                    = Cardinality(Links(s, d))

\* Two packages of the interest set linked by two entities: two statements.
C5_Witness ==
    /\ Level1Done /\ args.all_edges /\ DistinctNames
    /\ \E s, d \in KnownNames :
          /\ s # d
          /\ s \in Interest /\ d \in Interest
          /\ Cardinality(Links(s, d)) = 2
          /\ CopiesIn(EdgeLine(DOT_id(s), DOT_id(d)), PrintedEdges) = 2

\* ------------------------------------------------------------------ C10

\* The pairs of packages linked by an entity, of which one is in I.
Adjacent(I) ==
    { e \in KnownNames \X KnownNames :
        Links(e[1], e[2]) # {} /\ (e[1] \in I \/ e[2] \in I) }

\* C10: without --all-edges and with pairwise distinct names, the edges
\* recorded and printed are one for each pair of packages linked by an entity
\* of which one at least is in the interest set, and the outside nodes are
\* the ends of these edges that are not in the interest set.
C10_Level1Exact ==
    (Level1Done /\ ~args.all_edges /\ DistinctNames) =>
        LET I == Interest
            pairs == Adjacent(I)
            lines == { EdgeLine(DOT_id(e[1]), DOT_id(e[2])) : e \in pairs }
        IN  /\ PrintedEdges = SetToBag(lines)
            /\ Cardinality(lines) = Cardinality(pairs)
            /\ { e \in Names \X Names :
                    e[1] \in DOMAIN edges /\ BagIn(e[2], edges[e[1]]) } = pairs
            /\ outside_nodes = ({ e[1] : e \in pairs } \cup { e[2] : e \in pairs }) \ I
            /\ outside_nodes \cap I = {}

\* The scenario of the specification: interest {B}, B requires what A
\* provides and C requires what B provides: outside nodes A and C, edges
\* (B, A) and (C, B).
C10_Witness ==
    /\ Level1Done /\ ~args.all_edges /\ DistinctNames
    /\ \E a, b, c \in KnownNames :
          /\ Interest = {b}
          /\ outside_nodes = {a, c} /\ a # c
          /\ Links(b, a) # {} /\ Links(c, b) # {}
          /\ PrintedEdges = SetToBag({ EdgeLine(DOT_id(b), DOT_id(a)),
                                       EdgeLine(DOT_id(c), DOT_id(b)) })

\* ------------------------------------------------------------------- C6

\* The indices are built (requirers only by do_level1_graph).
IndexBuilt ==
    /\ args.command = "graph"
    /\ pc \in { "closure_header", "closure_loop", "level1_resolve", "level1_render", "done" }

InIndex(n, index, c) == \E k \in 1..Len(index[c]) : index[c][k] = n

\* The names of the packages that declare c in a field, in list order.
Declarers(c, field) ==
    LET sel == SelectSeq(packages, LAMBDA package :
                   IF field = "provides" THEN c \in package.provides
                   ELSE c \in package.requires)
    IN  [ k \in 1..Len(sel) |-> sel[k].name ]

\* The last record of the list that reports name n.
LastRecord(n) ==
    packages[CHOOSE i \in Indices :
                /\ packages[i].name = n
                /\ \A j \in Indices : packages[j].name = n => j <= i]

\* C6 as stated: a name is in providers[c] (requirers[c]) exactly when the
\* record that package_map holds for it provides (requires) c, also when two
\* records report the same name.
C6_AsStated ==
    IndexBuilt =>
        \A n \in Names : \A c \in Caps :
            /\ InIndex(n, providers, c)
                 <=> (n \in DOMAIN package_map /\ c \in package_map[n].provides)
            /\ Level1Run =>
                 (InIndex(n, requirers, c)
                    <=> (n \in DOMAIN package_map /\ c \in package_map[n].requires))

\* C6 amended: providers[c] (requirers[c]) lists, in list order, the name of
\* every record that provides (requires) c, a record shadowed in package_map
\* included; package_map holds the last record of each name; so the
\* statement of C6 holds when the names are pairwise distinct.
C6_EveryRecordIndexed ==
    IndexBuilt =>
        /\ DOMAIN package_map = KnownNames
        /\ \A n \in KnownNames :
              /\ package_map[n].provides = LastRecord(n).provides
              /\ package_map[n].requires = LastRecord(n).requires
              /\ package_map[n].path = LastRecord(n).path
        /\ \A c \in Caps :
              /\ providers[c] = Declarers(c, "provides")
              /\ Level1Run => requirers[c] = Declarers(c, "requires")
        /\ DistinctNames =>
              \A n \in Names : \A c \in Caps :
                  /\ InIndex(n, providers, c)
                       <=> (n \in DOMAIN package_map /\ c \in package_map[n].provides)
                  /\ Level1Run =>
                       (InIndex(n, requirers, c)
                          <=> (n \in DOMAIN package_map /\ c \in package_map[n].requires))

\* Two records report one name; the first provides and requires entities
\* that the second, which package_map holds, does not; the name is in both
\* indices all the same.
C6_Witness ==
    /\ IndexBuilt /\ Level1Run
    /\ \E i, j \in Indices : \E c, e \in Caps :
          /\ i < j
          /\ packages[i].name = packages[j].name
          /\ c \in packages[i].provides /\ c \notin package_map[packages[i].name].provides
          /\ e \in packages[i].requires /\ e \notin package_map[packages[i].name].requires
          /\ InIndex(packages[i].name, providers, c)
          /\ InIndex(packages[i].name, requirers, e)

\* ------------------------------------------------------------------- C7

ReadingDone == pc \notin { "main", "get_packages", "aborted", "usage_error" }

EdgeEnds == { l.src : l \in DOMAIN PrintedEdges } \cup { l.dst : l \in DOMAIN PrintedEdges }

\* C7: no lookup of a name fails; a requested name that is no package is
\* never expanded, is visited (closure) or an error node and no outside node
\* (level 1) once the requested names have been gone through, and is at no
\* end of a recorded or printed edge; every end of an edge is a key of
\* package_map; seeds that are all unresolved give no edge.
C7_UnresolvedNamesAreInert ==
    /\ pc # "KeyError"
    /\ EdgeEnds \subseteq { DOT_id(n) : n \in DOMAIN package_map }
    /\ \A n \in DOMAIN edges :
          n \in DOMAIN package_map /\ BagToSet(edges[n]) \subseteq DOMAIN package_map
    /\ outside_nodes \subseteq DOMAIN package_map
    /\ ReadingDone =>
          \A u \in Unresolved :
              /\ ~BagIn(u, expansions)
              /\ DOT_id(u) \notin EdgeEnds
              /\ u \notin outside_nodes
              /\ u \notin DOMAIN edges
              /\ \A n \in DOMAIN edges : ~BagIn(u, edges[n])
              /\ (ClosureRun /\ pc \in {"closure_loop", "done"}) =>
                    u \in visited /\ BagIn(RedNodeLine(u), Printed(stdout))
              /\ (Level1Run /\ pc \in {"level1_render", "done"}) => u \in error_nodes
              /\ Level1Done => BagIn(NodeLine(DOT_id(u)), Printed(stdout))
    /\ (ClosureDone /\ args.package \subseteq Unresolved) => PrintedEdges = EmptyBag

\* A closure run has ended whose seeds were a name that is no package and a
\* package with a dependency: the first was not expanded, the second was.
C7_Witness ==
    /\ ClosureDone
    /\ \E u \in Unresolved : \E p \in args.package \cap KnownNames :
          /\ u \in visited
          /\ ~BagIn(u, expansions)
          /\ BagIn(p, expansions)
          /\ PrintedEdges # EmptyBag

\* ------------------------------------------------------------------- C8

IndexEmpty ==
    /\ package_map = <<>>
    /\ \A c \in Caps : providers[c] = <<>> /\ requirers[c] = <<>>

\* C8 as stated: until every package has been read, and when reading one
\* fails, no index is built and nothing at all has been printed.
C8_AsStated ==
    pc \in { "main", "get_packages", "aborted" } => (IndexEmpty /\ stdout = <<>>)

\* C8 amended: until every package has been read, and when reading one
\* fails, no index is built and no leaf line and no line of a graph has been
\* printed; the output holds nothing, or, in the leaves command run without
\* --i-know-what-im-doing, the warning alone, which is printed before the
\* packages are read.
C8_OnlyTheWarningPrecedesReading ==
    pc \in { "main", "get_packages", "aborted" } =>
        /\ IndexEmpty
        /\ stdout = IF pc # "main" /\ args.command = "leaves" /\ ~args.i_know_what_im_doing
                    THEN <<WarningText>> ELSE <<>>

\* The second package could not be read in a leaves run: the warning is out.
C8_Witness ==
    /\ pc = "aborted"
    /\ args.command = "leaves"
    /\ Len(packages) = 1
    /\ stdout = <<WarningText>>

====
